---- MODULE Spec2Model ----
(***************************************************************************)
(* Merchant onboarding pipeline: the background task process_onboarding    *)
(* (src/onboarding_api.py), the in-memory StatusTracker                    *)
(* (src/utils/status_tracker.py) and the merchants table as written by     *)
(* create_merchant / update_merchant_onboarding_step                       *)
(* (src/utils/db_helpers.py).                                              *)
(*                                                                         *)
(* Timestamps are modelled as "set / not set" (BOOLEAN).  Python None is   *)
(* the string None for text fields.  Collaborator calls (database, blob    *)
(* store, search index, parsers) either return or raise; which one is a    *)
(* nondeterministic choice of the action that makes the call.              *)
(***************************************************************************)
EXTENDS Integers, Sequences, FiniteSets, TLC

VARIABLES
    jobs,           \* StatusTracker._jobs : merchant_id -> job dict
    merchants,      \* the merchants table  : merchant_id -> row
    uploads,        \* basenames under merchants/<id>/knowledge_base/
    artifacts,      \* roles whose <role>.ndjson exists under training_files/
    pc,             \* position of the background task in process_onboarding
    req,            \* arguments the background task was started with
    loc,            \* locals of process_onboarding (file paths found by the scans)
    exc,            \* text of the exception travelling to the outer handler
    datastores,     \* datastores that exist in the search index service
    imported,       \* roles whose artifact the running task imported
    config,         \* the merchant_config.json emitted for the merchant
    ledgerCalls,    \* the create_merchant / update_merchant_onboarding_step calls of the last action
    ops,            \* number of calls made by a direct client of the ledger
    kb,             \* what the parsers read in the uploaded files: product rows, chunks per document
    ids,            \* the corpus record being written: raw identifier, row index, id given to it
    tasks           \* POST /onboard requests accepted, the background task running, those queued

vars == <<jobs, merchants, uploads, artifacts, pc, req, loc, exc,
          datastores, imported, config, ledgerCalls, ops, kb, ids, tasks>>

None == "None"

----------------------------------------------------------------------------
(* Bounds of the model                                                     *)

MaxCount == 1

(* Universe of the inputs                                                  *)

MerchantId == "m1"
UserIds == {"u1", "u2"}
FieldValues == {"a", "b"}
ShopUrls == {"", "https://shop.example"}
FileNames == {"products.csv", "categories.csv", "faq.pdf"}
\* the uploads the three scans of knowledge_base are exercised on
ScanFileNames ==
    {".keep", "Products.CSV", "categories.csv", "categories.json", "faq.pdf",
     "products.csv", "products.json", "products.xlsx"}
ErrorTexts == {"boom", "403 Permission denied"}

----------------------------------------------------------------------------
(* StatusTracker                                                           *)

TotalSteps == 7

TrackerSteps ==
    {"create_folders", "process_products", "process_categories",
     "convert_documents", "setup_vertex", "generate_config", "finalize"}

StepStatuses == {"pending", "in_progress", "completed", "failed", "skipped"}

InitialMessage(step_name) ==
    CASE step_name = "create_folders" -> "Creating folder structure"
      [] step_name = "process_products" -> "Processing product files"
      [] step_name = "process_categories" -> "Processing category files"
      [] step_name = "convert_documents" -> "Converting documents to NDJSON"
      [] step_name = "setup_vertex" -> "Setting up Vertex AI Search"
      [] step_name = "generate_config" -> "Generating merchant configuration"
      [] OTHER -> "Finalizing onboarding"

NewStep(step_name) ==
    [status |-> "pending", message |-> InitialMessage(step_name),
     started_at |-> FALSE, completed_at |-> FALSE, error |-> None]

\* the dict stored by create_job under self._jobs[merchant_id]
NewJob(user_id) ==
    [user_id |-> user_id,
     status |-> "pending",
     progress |-> 0,
     total_steps |-> TotalSteps,
     current_step |-> None,
     steps |-> [s \in TrackerSteps |-> NewStep(s)],
     error |-> None]

create_job(js, merchant_id, user_id) ==
    [m \in (DOMAIN js) \cup {merchant_id} |->
        IF m = merchant_id THEN NewJob(user_id) ELSE js[m]]

\* variant: a started step counts towards the progress as well
FinishedOrStarted(step) == step.status \in {"completed", "skipped", "in_progress"}

\* a step counts towards the progress when it is completed or skipped
Finished(step) == step.status \in {"completed", "skipped"}

CompletedSteps(steps) == Cardinality({s \in DOMAIN steps : Finished(steps[s])})

\* int((completed_steps / total_steps) * 100)
Progress(steps, total_steps) == (CompletedSteps(steps) * 100) \div total_steps

AllFinished(steps) == \A s \in DOMAIN steps : Finished(steps[s])

\* the branch on the new status: fields of the step that the call sets
StepAfter(step, status, message, error) ==
    LET s1 == [step EXCEPT !.status = status]
        s2 == CASE status = "in_progress" -> [s1 EXCEPT !.started_at = TRUE]
                [] status = "completed" -> [s1 EXCEPT !.completed_at = TRUE, !.error = None]
                [] status = "failed" -> [s1 EXCEPT !.error = error]
                [] OTHER -> s1
    IN  IF message # None THEN [s2 EXCEPT !.message = message] ELSE s2

\* the job status the same branch assigns, before the all-finished check
StatusAfter(old_status, status) ==
    CASE status = "in_progress" -> "in_progress"
      [] status = "failed" -> "failed"
      [] OTHER -> old_status

\* variant: the overall status is left to the branch on the new status, the
\* check that every step is completed or skipped is missing
update_job_unchecked(job, step_name, status, message, error) ==
    LET steps == [job.steps EXCEPT ![step_name] = StepAfter(@, status, message, error)]
    IN  [job EXCEPT
            !.steps = steps,
            !.current_step = IF status = "in_progress" THEN step_name ELSE @,
            !.error = IF status = "failed" THEN error ELSE @,
            !.status = StatusAfter(@, status),
            !.progress = Progress(steps, job.total_steps)]

update_job(job, step_name, status, message, error) ==
    LET steps == [job.steps EXCEPT ![step_name] = StepAfter(@, status, message, error)]
        all == AllFinished(steps)
    IN  [job EXCEPT
            !.steps = steps,
            !.current_step = IF status = "in_progress" THEN step_name ELSE @,
            !.error = IF status = "failed" THEN error ELSE @,
            !.status = IF all THEN "completed" ELSE StatusAfter(@, status),
            !.progress = IF all THEN 100 ELSE Progress(steps, job.total_steps)]

update_step_status(js, merchant_id, step_name, status, message, error) ==
    IF merchant_id \notin DOMAIN js THEN js
    ELSE IF step_name \notin DOMAIN js[merchant_id].steps THEN js
    ELSE [js EXCEPT ![merchant_id] = update_job(@, step_name, status, message, error)]

----------------------------------------------------------------------------
(* The merchants table (db_helpers.py)                                     *)

\* three of the thirteen optional_fields of create_merchant; platform is the
\* one passed as a named parameter instead of through **kwargs
OptionalFields == {"target_customer", "bot_tone", "platform"}

OptionalValues == [OptionalFields -> FieldValues \cup {None}]

NoOptionals == [f \in OptionalFields |-> None]

\* step_columns of update_merchant_onboarding_step; the row's flags are
\* named by the step names that select them
LedgerSteps ==
    {"merchant_record", "folders", "products", "categories",
     "documents", "vertex", "config", "onboarding"}

CountColumns == {"product_count", "category_count", "document_count"}

\* the fields list of create_merchant: an optional field is part of the
\* statement only when a value other than None was passed for it
SuppliedFields(opts) == {f \in OptionalFields : opts[f] # None}

\* the row INSERT creates: the listed fields, every other column at its default
InsertedRow(user_id, shop_url, opts) ==
    [user_id |-> user_id,
     shop_url |-> shop_url,
     status |-> "active",
     onboarding_status |-> "pending",
     opt |-> opts,
     flags |-> [s \in LedgerSteps |-> FALSE],
     counts |-> [c \in CountColumns |-> 0],
     config_path |-> None,
     last_error |-> None,
     vertex_datastore_id |-> None,
     vertex_datastore_status |-> None,
     ai_persona_saved |-> FALSE]

\* variant: the conflicting row is replaced by the inserted one
ConflictRowReplaced(row, user_id, shop_url, opts) == InsertedRow(user_id, shop_url, opts)

\* variant: every optional column is part of the statement, passed or not
ConflictRowAllFields(row, user_id, shop_url, opts) ==
    [row EXCEPT
        !.user_id = user_id,
        !.shop_url = shop_url,
        !.onboarding_status = "pending",
        !.opt = opts]

\* ON CONFLICT (merchant_id) DO UPDATE SET f = EXCLUDED.f for every listed
\* field but merchant_id, status and created_at
ConflictRow(row, user_id, shop_url, opts) ==
    [row EXCEPT
        !.user_id = user_id,
        !.shop_url = shop_url,
        !.onboarding_status = "pending",
        !.opt = [f \in OptionalFields |->
                    IF f \in SuppliedFields(opts) THEN opts[f] ELSE row.opt[f]]]

create_merchant(rows, merchant_id, user_id, shop_url, opts) ==
    [m \in (DOMAIN rows) \cup {merchant_id} |->
        IF m # merchant_id THEN rows[m]
        ELSE IF m \in DOMAIN rows THEN ConflictRow(rows[m], user_id, shop_url, opts)
        ELSE InsertedRow(user_id, shop_url, opts)]

\* get_merchant: the rows SELECT * FROM merchants WHERE merchant_id = %s
\* [AND user_id = %s] returns; the filter on user_id is there when a user_id
\* is passed.  No row is None in the code
get_merchant(rows, merchant_id, user_id) ==
    IF merchant_id \in DOMAIN rows
       /\ (user_id \in {None, ""} \/ rows[merchant_id].user_id = user_id)
    THEN {rows[merchant_id]}
    ELSE {}

NoCounts == <<>>
NoPaths == <<>>

\* the SET list of update_merchant_onboarding_step applied to one row
StepUpdatedRow(row, step_name, completed, file_paths, counts, error) ==
    [row EXCEPT
        !.flags = [@ EXCEPT ![step_name] = completed],
        !.config_path = IF "config_path" \in DOMAIN file_paths
                        THEN file_paths["config_path"] ELSE @,
        !.counts = [c \in CountColumns |->
                        IF c \in DOMAIN counts THEN counts[c] ELSE @[c]],
        !.onboarding_status = IF step_name = "onboarding"
                              THEN (IF completed THEN "completed" ELSE "failed")
                              ELSE @,
        !.last_error = IF error \notin {None, ""} THEN error ELSE @]

update_merchant_onboarding_step(rows, merchant_id, step_name, completed, file_paths, counts, error) ==
    IF step_name \notin LedgerSteps THEN rows
    ELSE IF merchant_id \notin DOMAIN rows THEN rows
    ELSE [rows EXCEPT ![merchant_id] =
            StepUpdatedRow(@, step_name, completed, file_paths, counts, error)]

\* a database call that raises inside the helper is rolled back and changes nothing
Db(ok, after, before) == IF ok THEN after ELSE before

\* one call to the ledger: the helper, the step it names, the optional fields passed
LedgerCall(op, step_name, opts) == [op |-> op, step |-> step_name, opts |-> opts]

----------------------------------------------------------------------------
(* process_onboarding (onboarding_api.py)                                  *)

Track(js, step_name, status, message, error) ==
    update_step_status(js, MerchantId, step_name, status, message, error)

MarkStep(rows, step_name, completed, file_paths, counts, error) ==
    update_merchant_onboarding_step(rows, MerchantId, step_name, completed,
                                    file_paths, counts, error)

\* blob names come back from the bucket in name order
ListingOrder ==
    <<".keep", "Products.CSV", "categories.csv", "categories.json", "faq.pdf",
      "products.csv", "products.json", "products.xlsx", "terms.txt">>

InListing(up, name) == name \in up

list_files(up) == SelectSeq(ListingOrder, LAMBDA name : InListing(up, name))

ProductNames == {"products.json", "products.csv", "products.xlsx", "products.xls"}
CategoryNames == {"categories.csv", "categories.xlsx", "categories.xls"}

\* file_path.split('/')[-1].lower(), on the names of the universe
Lower(name) == IF name = "Products.CSV" THEN "products.csv" ELSE name

\* filename.endswith('.keep')
IsPlaceholder(name) == name = ".keep"

\* the first listed file whose lowercased name is one of names, None when
\* there is none
FirstMatch(listing, names) ==
    LET hits == SelectSeq(listing, LAMBDA name : Lower(name) \in names)
    IN  IF hits = <<>> THEN None ELSE Head(hits)

\* the listed files whose lowercased name is neither a products nor a
\* categories name and does not end with .keep
DocumentPaths(listing) ==
    {listing[i] : i \in {k \in 1..Len(listing) :
        /\ Lower(listing[k]) \notin ProductNames \cup CategoryNames
        /\ ~IsPlaceholder(Lower(listing[k]))}}

\* process_products_file dispatches on products_file_path.endswith(...), which
\* is case-sensitive: of the paths the scan accepts, the lowercase ones
SupportedProductsFile(path) == path \in ProductNames

ErrUnsupported == "Unsupported file type"

\* variant: no error text is taken for a permission error
IsPermissionErrorNever(error_msg) == FALSE

\* "IAM_PERMISSION_DENIED" in error_msg or "Permission" in error_msg
IsPermissionError(error_msg) == error_msg \in {"403 Permission denied"}

ErrRegistry == "Failed to create merchant record in database"

\* results = {"website_datastore": None, "documents_datastore": None}
NoDatastoreResult == [website_datastore |-> None, documents_datastore |-> None]

InitLoc ==
    [products_file_path |-> None, categories_file_path |-> None, document_paths |-> {},
     skipped_files |-> {}, datastore_result |-> NoDatastoreResult, import_errors |-> {}]

NoConfig == [written |-> FALSE, datastore_id |-> None]

\* no file contents read, no corpus record being written
NoContents == [rows |-> <<>>, chunks |-> <<>>]

NoRecord == [kind |-> None, raw |-> <<>>, has_id |-> FALSE, idx |-> 0, id |-> <<>>]

\* no request accepted yet: accepted counts the create_job calls, running is
\* the ordinal of the request whose background task runs, queue holds the
\* arguments of the tasks added and not yet started
NoTasks == [accepted |-> 0, running |-> 0, queue |-> <<>>]

\* the service before any request, whatever was uploaded
Boot ==
    /\ jobs = <<>>
    /\ merchants = <<>>
    /\ artifacts = {}
    /\ pc = "idle"
    /\ req = [user_id |-> None, shop_url |-> None, opts |-> NoOptionals]
    /\ loc = InitLoc
    /\ exc = None
    /\ datastores = {}
    /\ imported = {}
    /\ config = NoConfig
    /\ ledgerCalls = {}
    /\ ops = 0
    /\ tasks = NoTasks

Init ==
    /\ Boot
    /\ uploads \in SUBSET FileNames
    /\ kb = NoContents
    /\ ids = NoRecord

\* POST /onboard: create_job, then the background task is queued
StartOnboarding(user_id, shop_url, opts) ==
    /\ pc = "idle"
    /\ jobs' = create_job(jobs, MerchantId, user_id)
    /\ req' = [user_id |-> user_id, shop_url |-> shop_url, opts |-> opts]
    /\ loc' = InitLoc
    /\ exc' = None
    /\ imported' = {}
    /\ ledgerCalls' = {}
    /\ pc' = "create_merchant_record"
    /\ tasks' = [tasks EXCEPT !.accepted = @ + 1, !.running = tasks.accepted + 1]
    /\ UNCHANGED <<ops, kb, ids, merchants, uploads, artifacts, datastores, config>>

\* Step 0: the registry upsert; the tracker has no step of this name
CreateMerchantRecord(created, marked) ==
    /\ pc = "create_merchant_record"
    /\ LET j1 == Track(jobs, "create_merchant_record", "in_progress", None, None)
           m1 == create_merchant(merchants, MerchantId, req.user_id, req.shop_url, req.opts)
           m2 == Db(marked, MarkStep(m1, "merchant_record", TRUE, NoPaths, NoCounts, None), m1)
       IN  IF created
           THEN /\ merchants' = m2
                /\ jobs' = Track(j1, "create_merchant_record", "completed",
                                 "Merchant record created successfully", None)
                /\ ledgerCalls' = {LedgerCall("create_merchant", None, req.opts),
                                   LedgerCall("update_step", "merchant_record", NoOptionals)}
                /\ exc' = None
                /\ pc' = "create_folders"
           ELSE /\ merchants' = merchants
                /\ jobs' = Track(j1, "create_merchant_record", "failed", None,
                                 "Failed to create merchant record in database: " \o ErrRegistry)
                /\ ledgerCalls' = {LedgerCall("create_merchant", None, req.opts)}
                /\ exc' = ErrRegistry
                /\ pc' = "handler"
    /\ UNCHANGED <<tasks, ops, kb, ids, uploads, artifacts, req, loc, datastores, imported, config>>

\* Step 1 begins
CreateFoldersBegin ==
    /\ pc = "create_folders"
    /\ jobs' = Track(jobs, "create_folders", "in_progress", None, None)
    /\ ledgerCalls' = {}
    /\ pc' = "create_folders_run"
    /\ UNCHANGED <<tasks, ops, kb, ids, merchants, uploads, artifacts, req, loc, exc, datastores, imported, config>>

\* variant: the folders are created whatever the query returns
FoldersNeverSkipped(rows, user_id, selected) == FALSE

\* SELECT step_folders_created ... WHERE merchant_id = %s AND user_id = %s
FoldersAlreadyCreated(rows, user_id, selected) ==
    /\ selected
    /\ MerchantId \in DOMAIN rows
    /\ rows[MerchantId].user_id = user_id
    /\ rows[MerchantId].flags["folders"]

\* Step 1: short-circuit on the folders flag, else create the folders
CreateFoldersRun(selected, outcome, marked) ==
    /\ pc = "create_folders_run"
    /\ IF FoldersAlreadyCreated(merchants, req.user_id, selected)
       THEN /\ jobs' = Track(jobs, "create_folders", "completed",
                             "Folder structure already exists (created in Step 1)", None)
            /\ ledgerCalls' = {}
            /\ pc' = "process_products"
            /\ UNCHANGED <<merchants, uploads, exc>>
       ELSE IF outcome = "ok"
       THEN /\ uploads' = uploads \cup {".keep"}
            /\ merchants' = Db(marked, MarkStep(merchants, "folders", TRUE, NoPaths, NoCounts, None), merchants)
            /\ jobs' = Track(jobs, "create_folders", "completed",
                             "Folder structure created successfully", None)
            /\ ledgerCalls' = {LedgerCall("update_step", "folders", NoOptionals)}
            /\ pc' = "process_products"
            /\ UNCHANGED exc
       ELSE /\ merchants' = Db(marked, MarkStep(merchants, "folders", FALSE, NoPaths, NoCounts, outcome), merchants)
            /\ jobs' = Track(jobs, "create_folders", "failed", None, outcome)
            /\ ledgerCalls' = {LedgerCall("update_step", "folders", NoOptionals)}
            /\ exc' = outcome
            /\ pc' = "handler"
            /\ UNCHANGED uploads
    /\ UNCHANGED <<tasks, ops, kb, ids, artifacts, req, loc, datastores, imported, config>>

\* Step 2, scan: look for the products file in one listing of knowledge_base
ProductsScan(listed) ==
    /\ pc = "process_products"
    /\ LET path == IF listed THEN FirstMatch(list_files(uploads), ProductNames) ELSE None
       IN  /\ loc' = [loc EXCEPT !.products_file_path = path]
           /\ IF path # None
              THEN /\ jobs' = Track(jobs, "process_products", "in_progress", None, None)
                   /\ pc' = "products_run"
              ELSE /\ jobs' = Track(jobs, "process_products", "skipped",
                                    "No products file found in knowledge_base", None)
                   /\ pc' = "process_categories"
    /\ ledgerCalls' = {}
    /\ UNCHANGED <<tasks, ops, kb, ids, merchants, uploads, artifacts, req, exc, datastores, imported, config>>

\* Step 2, transform: process_products_file returns or raises; raising is fatal
ProductsRun(outcome, count, marked) ==
    /\ pc = "products_run"
    /\ (~SupportedProductsFile(loc.products_file_path)) => (outcome = ErrUnsupported)
    /\ IF outcome = "ok"
       THEN /\ artifacts' = artifacts \cup {"products"}
            /\ merchants' = Db(marked, MarkStep(merchants, "products", TRUE, NoPaths,
                                                ("product_count" :> count), None), merchants)
            /\ jobs' = Track(jobs, "process_products", "completed", "Processed products", None)
            /\ pc' = "process_categories"
            /\ UNCHANGED exc
       ELSE /\ merchants' = Db(marked, MarkStep(merchants, "products", FALSE, NoPaths,
                                                NoCounts, outcome), merchants)
            /\ jobs' = Track(jobs, "process_products", "failed", None, outcome)
            /\ exc' = outcome
            /\ pc' = "handler"
            /\ UNCHANGED artifacts
    /\ ledgerCalls' = {LedgerCall("update_step", "products", NoOptionals)}
    /\ UNCHANGED <<tasks, ops, kb, ids, uploads, req, loc, datastores, imported, config>>

\* Step 2b, scan
CategoriesScan(listed) ==
    /\ pc = "process_categories"
    /\ LET path == IF listed THEN FirstMatch(list_files(uploads), CategoryNames) ELSE None
       IN  /\ loc' = [loc EXCEPT !.categories_file_path = path]
           /\ IF path # None
              THEN /\ jobs' = Track(jobs, "process_categories", "in_progress", None, None)
                   /\ pc' = "categories_run"
              ELSE /\ jobs' = Track(jobs, "process_categories", "skipped",
                                    "No categories file found in knowledge_base", None)
                   /\ pc' = "convert_documents"
    /\ ledgerCalls' = {}
    /\ UNCHANGED <<tasks, ops, kb, ids, merchants, uploads, artifacts, req, exc, datastores, imported, config>>

\* variant: a raise of the categories transform is re-raised like the products one
CategoriesRunFatal(outcome, count, marked) ==
    /\ pc = "categories_run"
    /\ IF outcome = "ok"
       THEN /\ artifacts' = artifacts \cup {"categories"}
            /\ merchants' = Db(marked, MarkStep(merchants, "categories", TRUE, NoPaths,
                                                ("category_count" :> count), None), merchants)
            /\ jobs' = Track(jobs, "process_categories", "completed", "Processed categories", None)
            /\ pc' = "convert_documents"
            /\ UNCHANGED exc
       ELSE /\ merchants' = Db(marked, MarkStep(merchants, "categories", FALSE, NoPaths,
                                                NoCounts, outcome), merchants)
            /\ jobs' = Track(jobs, "process_categories", "failed", None, outcome)
            /\ exc' = outcome
            /\ pc' = "handler"
            /\ UNCHANGED artifacts
    /\ ledgerCalls' = {LedgerCall("update_step", "categories", NoOptionals)}
    /\ UNCHANGED <<tasks, ops, kb, ids, uploads, req, loc, datastores, imported, config>>

\* Step 2b, transform: a raise is recorded and the run goes on
CategoriesRun(outcome, count, marked) ==
    /\ pc = "categories_run"
    /\ IF outcome = "ok"
       THEN /\ artifacts' = artifacts \cup {"categories"}
            /\ merchants' = Db(marked, MarkStep(merchants, "categories", TRUE, NoPaths,
                                                ("category_count" :> count), None), merchants)
            /\ jobs' = Track(jobs, "process_categories", "completed", "Processed categories", None)
       ELSE /\ merchants' = Db(marked, MarkStep(merchants, "categories", FALSE, NoPaths,
                                                NoCounts, outcome), merchants)
            /\ jobs' = Track(jobs, "process_categories", "failed", None, outcome)
            /\ UNCHANGED artifacts
    /\ ledgerCalls' = {LedgerCall("update_step", "categories", NoOptionals)}
    /\ pc' = "convert_documents"
    /\ UNCHANGED <<tasks, ops, kb, ids, uploads, req, loc, exc, datastores, imported, config>>

\* Step 3, scan
DocumentsScan(listed) ==
    /\ pc = "convert_documents"
    /\ LET paths == IF listed THEN DocumentPaths(list_files(uploads)) ELSE {}
       IN  /\ loc' = [loc EXCEPT !.document_paths = paths]
           /\ IF paths # {}
              THEN /\ jobs' = Track(jobs, "convert_documents", "in_progress", None, None)
                   /\ pc' = "documents_run"
              ELSE /\ jobs' = Track(jobs, "convert_documents", "skipped",
                                    "No documents found in knowledge_base", None)
                   /\ pc' = "setup_vertex"
    /\ ledgerCalls' = {}
    /\ UNCHANGED <<tasks, ops, kb, ids, merchants, uploads, artifacts, req, exc, datastores, imported, config>>

\* variant: one file that is missing or fails to convert fails the step
DocumentsRunAllOrNothing(outcome, converted, count, marked) ==
    /\ pc = "documents_run"
    /\ converted \subseteq loc.document_paths
    /\ (converted = {}) <=> (count = 0)
    /\ IF outcome = "ok" /\ converted = loc.document_paths
       THEN /\ artifacts' = artifacts \cup {"documents"}
            /\ merchants' = Db(marked, MarkStep(merchants, "documents", TRUE, NoPaths,
                                                ("document_count" :> count), None), merchants)
            /\ jobs' = Track(jobs, "convert_documents", "completed", "Converted documents", None)
            /\ ledgerCalls' = {LedgerCall("update_step", "documents", NoOptionals)}
       ELSE /\ merchants' = Db(marked, MarkStep(merchants, "documents", FALSE, NoPaths,
                                                NoCounts, "boom"), merchants)
            /\ jobs' = Track(jobs, "convert_documents", "failed", None, "boom")
            /\ ledgerCalls' = {LedgerCall("update_step", "documents", NoOptionals)}
            /\ UNCHANGED artifacts
    /\ pc' = "setup_vertex"
    /\ UNCHANGED <<tasks, ops, kb, ids, uploads, req, loc, exc, datastores, imported, config>>

\* Step 3, conversion: converted are the files that exist and whose conversion
\* returned, count the number of documents they yielded (one per chunk, and
\* _split_text returns at least one chunk); every other file is in
\* skipped_files.  outcome is "ok" or the text convert_documents raised with
\* (building or uploading the artifact); that raise is recorded and the run
\* goes on
DocumentsRun(outcome, converted, count, marked) ==
    /\ pc = "documents_run"
    /\ converted \subseteq loc.document_paths
    /\ (converted = {}) <=> (count = 0)
    /\ loc' = IF outcome = "ok"
              THEN [loc EXCEPT !.skipped_files = loc.document_paths \ converted]
              ELSE loc
    /\ IF outcome = "ok" /\ count > 0
       THEN /\ artifacts' = artifacts \cup {"documents"}
            /\ merchants' = Db(marked, MarkStep(merchants, "documents", TRUE, NoPaths,
                                                ("document_count" :> count), None), merchants)
            /\ jobs' = Track(jobs, "convert_documents", "completed",
                             IF converted # loc.document_paths
                             THEN "Converted documents (skipped files)"
                             ELSE "Converted documents", None)
            /\ ledgerCalls' = {LedgerCall("update_step", "documents", NoOptionals)}
       ELSE IF outcome = "ok"
       THEN /\ jobs' = Track(jobs, "convert_documents", "skipped",
                             IF converted # loc.document_paths
                             THEN "No documents were successfully converted (all files were skipped/missing)"
                             ELSE "No documents were successfully converted", None)
            /\ ledgerCalls' = {}
            /\ UNCHANGED <<artifacts, merchants>>
       ELSE /\ merchants' = Db(marked, MarkStep(merchants, "documents", FALSE, NoPaths,
                                                NoCounts, outcome), merchants)
            /\ jobs' = Track(jobs, "convert_documents", "failed", None, outcome)
            /\ ledgerCalls' = {LedgerCall("update_step", "documents", NoOptionals)}
            /\ UNCHANGED artifacts
    /\ pc' = "setup_vertex"
    /\ UNCHANGED <<tasks, ops, kb, ids, uploads, req, exc, datastores, imported, config>>

\* Step 4 begins
VertexBegin ==
    /\ pc = "setup_vertex"
    /\ jobs' = Track(jobs, "setup_vertex", "in_progress", None, None)
    /\ ledgerCalls' = {}
    /\ pc' = "vertex_run"
    /\ UNCHANGED <<tasks, ops, kb, ids, merchants, uploads, artifacts, req, loc, exc, datastores, imported, config>>

\* variant: no documents datastore is asked for
NeededDatastoresWebsiteOnly(shop_url) ==
    IF shop_url \notin {None, ""} THEN {"website"} ELSE {}

\* the datastores create_datastore asks for: the website one only with a shop_url
NeededDatastores(shop_url) ==
    (IF shop_url \notin {None, ""} THEN {"website"} ELSE {}) \cup {"docs"}

\* status reported by _create_or_get_single_datastore for one datastore
DatastoreStatus(existing, creatable, ds) ==
    IF ds \in existing THEN "exists"
    ELSE IF ds \in creatable THEN "created"
    ELSE "pending_creation"

\* the dict create_datastore returns
DatastoreResult(existing, creatable, shop_url) ==
    [k \in {"website_datastore", "documents_datastore"} |->
        IF k = "website_datastore"
        THEN (IF "website" \in NeededDatastores(shop_url)
              THEN DatastoreStatus(existing, creatable, "website") ELSE None)
        ELSE DatastoreStatus(existing, creatable, "docs")]

\* dict.get(key, default)
Get(d, key, default) == IF key \in DOMAIN d THEN d[key] ELSE default

VertexMessage(shop_url, import_success, import_errors) ==
    "Vertex AI Search datastore configured"
    \o (IF shop_url \notin {None, ""} THEN " with website crawling" ELSE "")
    \o (IF import_success # {} THEN ". Successfully imported" ELSE "")
    \o (IF import_errors = {} THEN ""
        ELSE IF \E e \in import_errors : IsPermissionError(e)
        THEN ". Import failed due to missing permissions"
        ELSE ". Import errors")

\* Step 4: ensure the datastores, import every artifact found, record the result.
\* outcome: "ok" or the text raised inside the try block; creatable: datastores
\* whose creation succeeds; seen: artifacts file_exists reports; errs: the
\* import result per seen artifact
VertexRun(outcome, creatable, seen, errs, marked, updated) ==
    /\ pc = "vertex_run"
    /\ seen \subseteq artifacts
    /\ DOMAIN errs = seen
    /\ LET needed == NeededDatastores(req.shop_url)
           result == DatastoreResult(datastores, creatable, req.shop_url)
           import_success == {r \in seen : errs[r] = "ok"}
           import_errors == {errs[r] : r \in seen} \ {"ok"}
           vertex_datastore_id == Get(result, "datastore_id", MerchantId \o "-engine")
           vertex_status == IF Get(result, "status", None) \in {"created", "exists"}
                            THEN "active" ELSE "error"
           m1 == Db(marked, MarkStep(merchants, "vertex", TRUE, NoPaths, NoCounts, None), merchants)
           m2 == IF updated /\ MerchantId \in DOMAIN m1
                 THEN [m1 EXCEPT ![MerchantId].vertex_datastore_id = vertex_datastore_id,
                                 ![MerchantId].vertex_datastore_status = vertex_status]
                 ELSE m1
       IN  /\ datastores' = datastores \cup (needed \cap creatable)
           /\ IF outcome = "ok"
              THEN /\ imported' = import_success
                   /\ loc' = [loc EXCEPT !.datastore_result = result,
                                         !.import_errors = import_errors]
                   /\ merchants' = m2
                   /\ jobs' = Track(jobs, "setup_vertex", "completed",
                                    VertexMessage(req.shop_url, import_success, import_errors), None)
                   /\ ledgerCalls' = {LedgerCall("update_step", "vertex", NoOptionals)}
                   /\ pc' = "generate_config"
                   /\ UNCHANGED exc
              ELSE IF IsPermissionError(outcome)
              THEN /\ jobs' = Track(jobs, "setup_vertex", "failed", None,
                                    "Vertex AI setup failed: Missing permissions")
                   /\ ledgerCalls' = {}
                   /\ pc' = "generate_config"
                   /\ UNCHANGED <<imported, merchants, exc, loc>>
              ELSE /\ jobs' = Track(jobs, "setup_vertex", "failed", None, outcome)
                   /\ ledgerCalls' = {}
                   /\ exc' = outcome
                   /\ pc' = "handler"
                   /\ UNCHANGED <<imported, merchants, loc>>
    /\ UNCHANGED <<tasks, ops, kb, ids, uploads, artifacts, req, config>>

\* Step 5 begins
ConfigBegin ==
    /\ pc = "generate_config"
    /\ jobs' = Track(jobs, "generate_config", "in_progress", None, None)
    /\ ledgerCalls' = {}
    /\ pc' = "config_run"
    /\ UNCHANGED <<tasks, ops, kb, ids, merchants, uploads, artifacts, req, loc, exc, datastores, imported, config>>

ConfigPath == "merchant_config.json"

\* Step 5: generate_config returns or raises; raising is fatal
ConfigRun(outcome, marked) ==
    /\ pc = "config_run"
    /\ IF outcome = "ok"
       THEN /\ config' = [written |-> TRUE, datastore_id |-> MerchantId \o "-engine"]
            /\ merchants' = Db(marked, MarkStep(merchants, "config", TRUE,
                                                ("config_path" :> ConfigPath), NoCounts, None), merchants)
            /\ jobs' = Track(jobs, "generate_config", "completed",
                             "Configuration generated successfully", None)
            /\ pc' = "finalize"
            /\ UNCHANGED exc
       ELSE /\ merchants' = Db(marked, MarkStep(merchants, "config", FALSE, NoPaths,
                                                NoCounts, outcome), merchants)
            /\ jobs' = Track(jobs, "generate_config", "failed", None, outcome)
            /\ exc' = outcome
            /\ pc' = "handler"
            /\ UNCHANGED config
    /\ ledgerCalls' = {LedgerCall("update_step", "config", NoOptionals)}
    /\ UNCHANGED <<tasks, ops, kb, ids, uploads, artifacts, req, loc, datastores, imported>>

\* Step 6: the terminal ledger flag, then the finalize step
Finalize(marked) ==
    /\ pc = "finalize"
    /\ merchants' = Db(marked, MarkStep(merchants, "onboarding", TRUE, NoPaths, NoCounts, None), merchants)
    /\ jobs' = Track(jobs, "finalize", "completed", "Onboarding completed successfully", None)
    /\ ledgerCalls' = {LedgerCall("update_step", "onboarding", NoOptionals)}
    /\ pc' = "done"
    /\ UNCHANGED <<tasks, ops, kb, ids, uploads, artifacts, req, loc, exc, datastores, imported, config>>

\* the outer except of process_onboarding
Handler(marked) ==
    /\ pc = "handler"
    /\ merchants' = Db(marked, MarkStep(merchants, "onboarding", FALSE, NoPaths, NoCounts, exc), merchants)
    /\ jobs' = Track(jobs, "finalize", "failed", None, exc)
    /\ ledgerCalls' = {LedgerCall("update_step", "onboarding", NoOptionals)}
    /\ pc' = "done"
    /\ UNCHANGED <<tasks, ops, kb, ids, uploads, artifacts, req, loc, exc, datastores, imported, config>>

\* UPDATE merchants SET <column> = TRUE ... WHERE merchant_id = %s AND user_id = %s
OwnedUpdate(rows, user_id, ok, row_after) ==
    IF ok /\ MerchantId \in DOMAIN rows /\ rows[MerchantId].user_id = user_id
    THEN [rows EXCEPT ![MerchantId] = row_after]
    ELSE rows

\* POST /agents/ai-persona: upsert the row, flag it, create the folders and
\* set the folders flag
SaveAIPersona(user_id, shop_url, opts, created, flagged, folders, marked) ==
    /\ pc \in {"idle", "done"}
    /\ IF ~created
       THEN UNCHANGED <<merchants, uploads>>
       ELSE LET m1 == create_merchant(merchants, MerchantId, user_id, shop_url, opts)
                m2 == OwnedUpdate(m1, user_id, flagged,
                                  [m1[MerchantId] EXCEPT !.ai_persona_saved = TRUE])
                m3 == OwnedUpdate(m2, user_id, marked,
                                  [m2[MerchantId] EXCEPT !.flags["folders"] = TRUE])
            IN  IF folders
                THEN /\ uploads' = uploads \cup {".keep"}
                     /\ merchants' = m3
                ELSE /\ uploads' = uploads
                     /\ merchants' = m2
    /\ ledgerCalls' = {LedgerCall("create_merchant", None, opts)}
    /\ UNCHANGED <<tasks, ops, kb, ids, jobs, artifacts, pc, req, loc, exc, datastores, imported, config>>

----------------------------------------------------------------------------
(* The pipeline: one run of process_onboarding for the merchant, started  *)
(* by POST /onboard; the persona may be saved before and after it.  The    *)
(* database is up for the ledger writes of the run; the registry upsert    *)
(* and the folders query can fail.  When create_datastore raises no import *)
(* has been tried yet.                                                     *)

RequestOptionals == {[NoOptionals EXCEPT !["bot_tone"] = "a"]}

PersonaOptionals == {[NoOptionals EXCEPT !["platform"] = "b"]}

\* what a collaborator call does: it returns, or raises with one of the texts;
\* only the search-index calls have their text inspected
Outcomes == {"ok"} \cup ErrorTexts

PlainOutcomes == {"ok", "boom"}

CountValues == 0..MaxCount

DbUp == {TRUE}

Next ==
    \/ \E u \in UserIds, url \in ShopUrls, o \in RequestOptionals : StartOnboarding(u, url, o)
    \/ \E created \in BOOLEAN, marked \in DbUp : CreateMerchantRecord(created, marked)
    \/ CreateFoldersBegin
    \/ \E selected \in BOOLEAN, marked \in DbUp, outcome \in PlainOutcomes :
            CreateFoldersRun(selected, outcome, marked)
    \/ \E listed \in BOOLEAN : ProductsScan(listed)
    \/ \E outcome \in PlainOutcomes, count \in CountValues, marked \in DbUp :
            ProductsRun(outcome, count, marked)
    \/ \E listed \in BOOLEAN : CategoriesScan(listed)
    \/ \E outcome \in PlainOutcomes, count \in CountValues, marked \in DbUp :
            CategoriesRun(outcome, count, marked)
    \/ \E listed \in BOOLEAN : DocumentsScan(listed)
    \/ \E outcome \in PlainOutcomes, converted \in SUBSET FileNames, count \in CountValues,
          marked \in DbUp : DocumentsRun(outcome, converted, count, marked)
    \/ VertexBegin
    \/ \E outcome \in Outcomes, creatable \in SUBSET {"website", "docs"},
          marked, updated \in DbUp :
            \E seen \in (IF outcome = "ok" THEN SUBSET artifacts ELSE {{}}) :
                \E errs \in [seen -> Outcomes] :
                    VertexRun(outcome, creatable, seen, errs, marked, updated)
    \/ ConfigBegin
    \/ \E outcome \in PlainOutcomes, marked \in DbUp : ConfigRun(outcome, marked)
    \/ \E marked \in DbUp : Finalize(marked)
    \/ \E marked \in DbUp : Handler(marked)
    \/ \E u \in UserIds, o \in PersonaOptionals, folders \in BOOLEAN,
          created, flagged, marked \in DbUp :
            SaveAIPersona(u, "https://shop.example", o, created, flagged, folders, marked)

Spec == Init /\ [][Next]_vars

----------------------------------------------------------------------------
(* The ledger on its own: a client that calls create_merchant and          *)
(* update_merchant_onboarding_step in any order, for any step.             *)

MaxOps == 3

\* the optional fields a direct client passes: any values for two of them
ClientOptionals == {o \in OptionalValues : o["platform"] = None}

\* the counter a call site passes with a step, when the step has one
CounterOf(step_name) ==
    CASE step_name = "products" -> "product_count"
      [] step_name = "categories" -> "category_count"
      [] step_name = "documents" -> "document_count"
      [] OTHER -> None

ClientCounts(step_name) ==
    IF CounterOf(step_name) = None THEN {NoCounts}
    ELSE {NoCounts} \cup {(CounterOf(step_name) :> c) : c \in CountValues}

ClientPaths(step_name) ==
    IF step_name = "config" THEN {NoPaths, ("config_path" :> ConfigPath)} ELSE {NoPaths}

LedgerCreate(user_id, shop_url, opts) ==
    /\ ops < MaxOps
    /\ merchants' = create_merchant(merchants, MerchantId, user_id, shop_url, opts)
    /\ ledgerCalls' = {LedgerCall("create_merchant", None, opts)}
    /\ ops' = ops + 1
    /\ UNCHANGED <<tasks, kb, ids, jobs, uploads, artifacts, pc, req, loc, exc, datastores, imported, config>>

LedgerMark(step_name, completed, file_paths, counts, error) ==
    /\ ops < MaxOps
    /\ merchants' = update_merchant_onboarding_step(merchants, MerchantId, step_name,
                                                    completed, file_paths, counts, error)
    /\ ledgerCalls' = {LedgerCall("update_step", step_name, NoOptionals)}
    /\ ops' = ops + 1
    /\ UNCHANGED <<tasks, kb, ids, jobs, uploads, artifacts, pc, req, loc, exc, datastores, imported, config>>

LedgerInit == Init /\ uploads = {}

LedgerNext ==
    \/ \E u \in UserIds, o \in ClientOptionals : LedgerCreate(u, "https://shop.example", o)
    \/ \E s \in LedgerSteps \cup {"unknown"}, completed \in BOOLEAN, error \in {None, "boom"} :
            \E paths \in ClientPaths(s), counts \in ClientCounts(s) :
                LedgerMark(s, completed, paths, counts, error)

SpecLedger == LedgerInit /\ [][LedgerNext]_vars

----------------------------------------------------------------------------
(* The scans of knowledge_base: one run over any set of uploads, with a     *)
(* listing that can fail at each of the three scans.  Every other           *)
(* collaborator returns, except that the products transform refuses a path  *)
(* it does not recognise.                                                   *)

ScanInit ==
    /\ Boot
    /\ uploads \in SUBSET ScanFileNames
    /\ kb = NoContents
    /\ ids = NoRecord

ScanNext ==
    \/ StartOnboarding("u1", "", NoOptionals)
    \/ CreateMerchantRecord(TRUE, TRUE)
    \/ CreateFoldersBegin
    \/ CreateFoldersRun(TRUE, "ok", TRUE)
    \/ \E listed \in BOOLEAN : ProductsScan(listed)
    \/ \E outcome \in {"ok", ErrUnsupported} : ProductsRun(outcome, MaxCount, TRUE)
    \/ \E listed \in BOOLEAN : CategoriesScan(listed)
    \/ CategoriesRun("ok", MaxCount, TRUE)
    \/ \E listed \in BOOLEAN : DocumentsScan(listed)
    \/ DocumentsRun("ok", loc.document_paths, MaxCount, TRUE)
    \/ VertexBegin
    \/ VertexRun("ok", {"docs"}, artifacts, [r \in artifacts |-> "ok"], TRUE, TRUE)
    \/ ConfigBegin
    \/ ConfigRun("ok", TRUE)
    \/ Finalize(TRUE)
    \/ Handler(TRUE)

SpecScan == ScanInit /\ [][ScanNext]_vars

----------------------------------------------------------------------------
(* Record ids of the corpus artifacts (product_processor.py,                *)
(* document_converter.py).  An identifier is a sequence of one-character    *)
(* strings.                                                                 *)

MaxLen == 3
MaxIndex == 1

\* characters of the raw identifiers: a letter of each case, a digit, the
\* underscore, the hyphen, and two characters outside the class
RawChars == {"a", "Z", "7", "_", "-", " ", "/"}

RawIds == UNION {[1..n -> RawChars] : n \in 0..MaxLen}

Digits == <<"0", "1", "2", "3", "4", "5", "6", "7", "8", "9">>

\* the class [a-zA-Z0-9-_], on the characters that occur
AllowedChars ==
    {"a", "c", "d", "e", "g", "m", "o", "p", "r", "t", "u", "y", "Z", "-", "_"}
        \cup {Digits[i] : i \in 1..10}

\* re.sub(r'[^a-zA-Z0-9-_]', '-', x)
ReplaceInvalid(x) == [i \in 1..Len(x) |-> IF x[i] \in AllowedChars THEN x[i] ELSE "-"]

RECURSIVE CollapseHyphens(_)
\* re.sub(r'-+', '-', x)
CollapseHyphens(x) ==
    IF Len(x) < 2 THEN x
    ELSE IF x[1] = "-" /\ x[2] = "-" THEN CollapseHyphens(Tail(x))
    ELSE <<x[1]>> \o CollapseHyphens(Tail(x))

RECURSIVE StripLeft(_)
StripLeft(x) == IF x # <<>> /\ Head(x) = "-" THEN StripLeft(Tail(x)) ELSE x

RECURSIVE StripRight(_)
StripRight(x) ==
    IF x # <<>> /\ x[Len(x)] = "-" THEN StripRight(SubSeq(x, 1, Len(x) - 1)) ELSE x

\* x.strip('-')
StripHyphens(x) == StripRight(StripLeft(x))

\* variant: the hyphens are stripped before the replacement
SanitizeStripFirst(x) == CollapseHyphens(ReplaceInvalid(StripHyphens(x)))

\* the three steps every writer applies to the original id
Sanitize(x) == StripHyphens(CollapseHyphens(ReplaceInvalid(x)))

\* variant: an empty id is written as it is
OrFallbackNever(id, fallback) == id

\* if not product_id: product_id = <fallback>
OrFallback(id, fallback) == IF id = <<>> THEN fallback ELSE id

RECURSIVE IndexText(_)
\* the decimal text of a row or chunk index
IndexText(i) ==
    IF i < 10 THEN <<Digits[i + 1]>>
    ELSE IndexText(i \div 10) \o <<Digits[(i % 10) + 1]>>

ProductPrefix == <<"p", "r", "o", "d", "u", "c", "t", "-">>
CategoryPrefix == <<"c", "a", "t", "e", "g", "o", "r", "y", "-">>
DocPrefix == <<"d", "o", "c", "-">>
MerchantIdText == <<"m", "1">>

\* link_value.split('/')[-1]; the raw identifiers are too short to hold
\* '/products/'
RECURSIVE LastSegment(_)
LastSegment(x) ==
    IF \A i \in 1..Len(x) : x[i] # "/" THEN x ELSE LastSegment(Tail(x))

\* id of a products.ndjson record made from a row of the csv / xlsx file
ProductId(has_id, raw, idx) ==
    LET original_id == IF has_id THEN raw ELSE ProductPrefix \o IndexText(idx)
    IN  OrFallback(Sanitize(original_id), ProductPrefix \o IndexText(idx))

\* id of a products.ndjson record made from an entry of the json file
JsonProductId(link_value, idx) ==
    OrFallback(Sanitize(LastSegment(link_value)), ProductPrefix \o IndexText(idx))

\* id of a categories.ndjson record
CategoryId(has_id, raw, idx) ==
    LET stem == CategoryPrefix \o MerchantIdText \o <<"-">>
        original_id == stem \o (IF has_id THEN raw ELSE IndexText(idx))
    IN  OrFallback(Sanitize(original_id), stem \o IndexText(idx))

\* id of the i-th chunk of a document whose file name without extension is base_name
DocumentId(base_name, i) ==
    OrFallback(Sanitize(base_name \o <<"_">> \o IndexText(i)), DocPrefix \o IndexText(i))

WriteRecord(kind, id) ==
    /\ ids.kind = None
    /\ ids' = [ids EXCEPT !.kind = kind, !.id = id]
    /\ UNCHANGED <<jobs, merchants, uploads, artifacts, pc, req, loc, exc,
                   datastores, imported, config, ledgerCalls, ops, kb, tasks>>

create_full_products == WriteRecord("product", ProductId(ids.has_id, ids.raw, ids.idx))

create_full_products_from_json == WriteRecord("json_product", JsonProductId(ids.raw, ids.idx))

create_categories_ndjson == WriteRecord("category", CategoryId(ids.has_id, ids.raw, ids.idx))

convert_single_document == WriteRecord("document", DocumentId(ids.raw, ids.idx))

\* one record about to be written: any raw identifier (or none), any index
IdsInit ==
    /\ Boot
    /\ uploads = {}
    /\ kb = NoContents
    /\ ids \in [kind : {None}, raw : RawIds, has_id : BOOLEAN, idx : 0..MaxIndex, id : {<<>>}]

IdsNext ==
    \/ create_full_products
    \/ create_full_products_from_json
    \/ create_categories_ndjson
    \/ convert_single_document

SpecIds == IdsInit /\ [][IdsNext]_vars

----------------------------------------------------------------------------
(* The counters of a run in which every collaborator returns: the counts    *)
(* passed to the ledger are the ones the transforms compute from what the   *)
(* uploaded files hold.  A product row is the set of required fields it     *)
(* has a value for; a document is the number of chunks its text splits into.*)

MaxRows == 2
MaxChunks == 2

\* "required fields (name, image_url, link, price)"
RequiredFields == {"name", "image_url", "link", "price"}

ProductRows == UNION {[1..n -> SUBSET RequiredFields] : n \in 0..MaxRows}

\* _create_curated_products: a row without a name is named 'Untitled Product'
\* before the required fields are tested
CuratedFromTable(rows) ==
    SelectSeq(rows, LAMBDA row : RequiredFields \subseteq (row \cup {"name"}))

\* _process_json_products: an entry lacking any required field is skipped
CuratedFromJson(rows) == SelectSeq(rows, LAMBDA row : RequiredFields \subseteq row)

\* product_count = len(curated_products)
ProductCount(path, rows) ==
    Len(IF path = "products.json" THEN CuratedFromJson(rows) ELSE CuratedFromTable(rows))

RECURSIVE DocumentCount(_, _)
\* document_count = len(all_documents): one document per chunk of every
\* converted file
DocumentCount(chunks, converted) ==
    IF converted = {} THEN 0
    ELSE LET f == CHOOSE x \in converted : TRUE
         IN  chunks[f] + DocumentCount(chunks, converted \ {f})

CountsInit ==
    /\ Boot
    /\ uploads \in {{"products.csv", "faq.pdf"}, {"products.json", "faq.pdf"}}
    /\ kb \in [rows : ProductRows, chunks : [{"faq.pdf"} -> 1..MaxChunks]]
    /\ ids = NoRecord

CountsNext ==
    \/ StartOnboarding("u1", "https://shop.example", NoOptionals)
    \/ CreateMerchantRecord(TRUE, TRUE)
    \/ CreateFoldersBegin
    \/ CreateFoldersRun(TRUE, "ok", TRUE)
    \/ ProductsScan(TRUE)
    \/ ProductsRun("ok", ProductCount(loc.products_file_path, kb.rows), TRUE)
    \/ CategoriesScan(TRUE)
    \/ DocumentsScan(TRUE)
    \/ DocumentsRun("ok", loc.document_paths,
                    DocumentCount(kb.chunks, loc.document_paths), TRUE)
    \/ VertexBegin
    \/ VertexRun("ok", {"website", "docs"}, artifacts, [r \in artifacts |-> "ok"], TRUE, TRUE)
    \/ ConfigBegin
    \/ ConfigRun("ok", TRUE)
    \/ Finalize(TRUE)

SpecCounts == CountsInit /\ [][CountsNext]_vars

----------------------------------------------------------------------------
(* Conversion of several documents: one run over uploads with up to two     *)
(* documents, each of which may be missing or fail to convert when          *)
(* convert_documents reaches it; building or uploading the artifact may     *)
(* raise.  Every other collaborator returns.                                *)

DocFileNames == {"faq.pdf", "terms.txt"}

DocsInit ==
    /\ Boot
    /\ uploads \in {DocFileNames \cup extra : extra \in SUBSET {"products.csv", ".keep"}}
    /\ kb \in [rows : {<<>>}, chunks : [DocFileNames -> 1..MaxChunks]]
    /\ ids = NoRecord

DocsNext ==
    \/ \E url \in ShopUrls : StartOnboarding("u1", url, NoOptionals)
    \/ CreateMerchantRecord(TRUE, TRUE)
    \/ CreateFoldersBegin
    \/ CreateFoldersRun(TRUE, "ok", TRUE)
    \/ ProductsScan(TRUE)
    \/ ProductsRun("ok", MaxCount, TRUE)
    \/ CategoriesScan(TRUE)
    \/ DocumentsScan(TRUE)
    \/ \E outcome \in PlainOutcomes, converted \in SUBSET DocFileNames :
            DocumentsRun(outcome, converted, DocumentCount(kb.chunks, converted), TRUE)
    \/ VertexBegin
    \/ \E seen \in {artifacts} : \E errs \in [seen -> Outcomes] :
            VertexRun("ok", {"website", "docs"}, seen, errs, TRUE, TRUE)
    \/ ConfigBegin
    \/ ConfigRun("ok", TRUE)
    \/ Finalize(TRUE)

SpecDocs == DocsInit /\ [][DocsNext]_vars

----------------------------------------------------------------------------
(* Requests for a merchant that already has a run.  process_onboarding is  *)
(* a coroutine without an await, so once its task has begun no other        *)
(* handler runs before it returns; a request or a poll is handled before    *)
(* the task added by an earlier request begins, or after a task returned.   *)
(* Tasks run in the order they were added.                                  *)

MaxRuns == 2

\* POST /onboard handled while the task of an earlier request has not begun
\* or after it returned: create_job replaces the entry, the task is added
StartOnboardingAgain(user_id, shop_url, opts) ==
    /\ pc \in {"create_merchant_record", "done"}
    /\ tasks.accepted < MaxRuns
    /\ jobs' = create_job(jobs, MerchantId, user_id)
    /\ tasks' = [tasks EXCEPT
                    !.accepted = @ + 1,
                    !.queue = Append(@, [user_id |-> user_id, shop_url |-> shop_url,
                                         opts |-> opts])]
    /\ ledgerCalls' = {}
    /\ UNCHANGED <<ops, kb, ids, merchants, uploads, artifacts, pc, req, loc, exc,
                   datastores, imported, config>>

\* the next added task begins once the running one has returned
RunBackgroundTask ==
    /\ pc = "done"
    /\ tasks.queue # <<>>
    /\ req' = Head(tasks.queue)
    /\ tasks' = [tasks EXCEPT !.running = @ + 1, !.queue = Tail(@)]
    /\ loc' = InitLoc
    /\ exc' = None
    /\ imported' = {}
    /\ ledgerCalls' = {}
    /\ pc' = "create_merchant_record"
    /\ UNCHANGED <<ops, kb, ids, jobs, merchants, uploads, artifacts, datastores, config>>

\* db_steps_completed and the three row columns get_onboarding_status reads
DatabaseStatus(rows, merchant_id) ==
    IF merchant_id \in DOMAIN rows
    THEN [database_steps |-> rows[merchant_id].flags,
          onboarding_status |-> rows[merchant_id].onboarding_status,
          last_error |-> rows[merchant_id].last_error]
    ELSE [database_steps |-> <<>>, onboarding_status |-> None, last_error |-> None]

\* status["database_steps"] = ..., status["onboarding_status"] = ...,
\* status["last_error"] = ... on the dict get_status returned
MergedStatus(status, db) ==
    [k \in (DOMAIN status) \cup (DOMAIN db) |->
        IF k \in DOMAIN db THEN db[k] ELSE status[k]]

\* GET /onboard-status/{merchant_id}: get_status hands out the stored dict
\* itself and the handler writes the database fields into it
GetOnboardingStatus ==
    /\ pc \in {"idle", "create_merchant_record", "done"}
    /\ MerchantId \in DOMAIN jobs
    /\ jobs' = [jobs EXCEPT ![MerchantId] =
                    MergedStatus(@, DatabaseStatus(merchants, MerchantId))]
    /\ ledgerCalls' = {}
    /\ UNCHANGED <<tasks, ops, kb, ids, merchants, uploads, artifacts, pc, req, loc, exc,
                   datastores, imported, config>>

RerunInit ==
    /\ Boot
    /\ uploads \in SUBSET FileNames
    /\ kb = NoContents
    /\ ids = NoRecord

RerunNext ==
    \/ StartOnboarding("u1", "", NoOptionals)
    \/ \E u \in UserIds : StartOnboardingAgain(u, "", NoOptionals)
    \/ RunBackgroundTask
    \/ GetOnboardingStatus
    \/ CreateMerchantRecord(TRUE, TRUE)
    \/ CreateFoldersBegin
    \/ CreateFoldersRun(TRUE, "ok", TRUE)
    \/ \E listed \in BOOLEAN : ProductsScan(listed)
    \/ \E outcome \in PlainOutcomes : ProductsRun(outcome, MaxCount, TRUE)
    \/ \E listed \in BOOLEAN : CategoriesScan(listed)
    \/ \E outcome \in PlainOutcomes : CategoriesRun(outcome, MaxCount, TRUE)
    \/ \E listed \in BOOLEAN : DocumentsScan(listed)
    \/ DocumentsRun("ok", loc.document_paths, MaxCount, TRUE)
    \/ VertexBegin
    \/ VertexRun("ok", {"docs"}, artifacts, [r \in artifacts |-> "ok"], TRUE, TRUE)
    \/ ConfigBegin
    \/ ConfigRun("ok", TRUE)
    \/ Finalize(TRUE)
    \/ Handler(TRUE)

SpecRerun == RerunInit /\ [][RerunNext]_vars

----------------------------------------------------------------------------
(* Properties                                                              *)

\* the step names process_onboarding passes to update_step_status
ReportedSteps == TrackerSteps \cup {"create_merchant_record"}

HasJob == MerchantId \in DOMAIN jobs

HasRow == MerchantId \in DOMAIN merchants

StepStatusOf(step_name) == jobs[MerchantId].steps[step_name].status

Terminal(step_name) == StepStatusOf(step_name) \in {"completed", "failed", "skipped"}

\* C1: in a run where a products file is found and the products
\* transformation raises, the steps setup_vertex, generate_config and
\* finalize never leave pending.
C1_FatalShortCircuit ==
    (HasJob /\ StepStatusOf("process_products") = "failed")
        => \A s \in {"setup_vertex", "generate_config", "finalize"} : StepStatusOf(s) = "pending"

\* the run is over and one of the failures the pipeline calls fatal happened
\* in it: an exception reached the outer handler, or setup_vertex failed
FatalStop ==
    /\ pc = "done"
    /\ \/ exc # None
       \/ HasJob /\ StepStatusOf("setup_vertex") = "failed"

\* C2: after a fatal failure of any kind the tracker's overall status ends
\* as failed, the ledger's onboarding flag is false, last_error holds the
\* error text, and no later step was worked on.
C2_FatalPropagation ==
    FatalStop =>
        /\ jobs[MerchantId].status = "failed"
        /\ config = NoConfig
        /\ HasRow
        /\ ~merchants[MerchantId].flags["onboarding"]
        /\ merchants[MerchantId].last_error # None
        /\ (exc # None) => (merchants[MerchantId].last_error = exc)

CategoriesFailed == HasJob /\ StepStatusOf("process_categories") = "failed"

C4_StepStateMachine ==
    [][(HasJob /\ MerchantId \in DOMAIN jobs') =>
        \A s \in TrackerSteps :
            /\ (StepStatusOf(s) = "pending")
                    => jobs'[MerchantId].steps[s].status \notin {"completed", "failed"}
            /\ Terminal(s) => jobs'[MerchantId].steps[s].status = StepStatusOf(s)]_vars

\* C5: after every update_step_status call of a run the overall status is
\* completed exactly when every step is completed or skipped.
C5_CompletedIffAllFinished ==
    \A m \in DOMAIN jobs :
        (jobs[m].status = "completed") <=> AllFinished(jobs[m].steps)

C5_Witness ==
    /\ HasJob
    /\ jobs[MerchantId].status = "completed"
    /\ \E s \in TrackerSteps : StepStatusOf(s) = "skipped"

\* C6: after every update_step_status call the overall status is failed
\* exactly when some step is failed and not every step is completed or skipped.
C6_FailedIffSomeStepFailed ==
    \A m \in DOMAIN jobs :
        (jobs[m].status = "failed")
            <=> /\ \E s \in DOMAIN jobs[m].steps : jobs[m].steps[s].status = "failed"
                /\ ~AllFinished(jobs[m].steps)

\* C7: within a run the progress never decreases from one update_step_status
\* call to the next.
C7_ProgressMonotone ==
    [][(HasJob /\ MerchantId \in DOMAIN jobs')
            => jobs'[MerchantId].progress >= jobs[MerchantId].progress]_vars

C7_Witness ==
    /\ HasJob
    /\ jobs[MerchantId].progress = 57
    /\ \E s \in TrackerSteps : StepStatusOf(s) = "failed"

\* C8: create_job creates a run with exactly the eight step names the
\* orchestrator reports, all pending, overall status pending and progress 0.
C8_EightSteps ==
    \A m \in DOMAIN jobs :
        /\ DOMAIN jobs[m].steps = ReportedSteps
        /\ Cardinality(DOMAIN jobs[m].steps) = 8
        /\ (pc = "create_merchant_record") =>
                /\ \A s \in DOMAIN jobs[m].steps : jobs[m].steps[s].status = "pending"
                /\ jobs[m].status = "pending"
                /\ jobs[m].progress = 0

CounterChanged(step_name) ==
    /\ CounterOf(step_name) # None
    /\ merchants'[MerchantId].counts[CounterOf(step_name)]
            # merchants[MerchantId].counts[CounterOf(step_name)]

ProductsPriority == <<"products.json", "products.csv", "products.xlsx", "products.xls">>

\* the preferred products name among the uploads, None when there is none
PreferredProducts(up) ==
    LET present == SelectSeq(ProductsPriority, LAMBDA n : \E f \in up : Lower(f) = n)
    IN  IF present = <<>> THEN None ELSE Head(present)

\* C11: whatever is uploaded, the products file a run works on is the one
\* whose extension comes first in the order .json, .csv, .xlsx, .xls among
\* the products files present.
C11_ExtensionPriority ==
    (pc = "products_run") => Lower(loc.products_file_path) = PreferredProducts(uploads)

\* what the three scans find in one listing
Classify(listing) ==
    [products_file_path |-> FirstMatch(listing, ProductNames),
     categories_file_path |-> FirstMatch(listing, CategoryNames),
     document_paths |-> DocumentPaths(listing)]

ClassifiedFileSet ==
    [products_file_path |-> loc.products_file_path,
     categories_file_path |-> loc.categories_file_path,
     document_paths |-> loc.document_paths]

\* C12: the products file, the categories file and the documents a run uses
\* are what one listing of knowledge_base classifies to: the listing of the
\* uploads, or the empty one when the listing could not be fetched.
C12_SingleListing ==
    (pc \in {"documents_run", "setup_vertex"})
        => ClassifiedFileSet \in {Classify(list_files(uploads)), Classify(<<>>)}

\* the role names of the remainder rule: products.* and categories.* with
\* any role extension
RoleNames == ProductNames \cup CategoryNames \cup {"categories.json"}

\* C13: the documents handed to convert_documents are exactly the uploads
\* whose lowercased name is not a role name and not a .keep placeholder.
C13_RemainderRule ==
    (pc = "documents_run")
        => loc.document_paths =
                {f \in uploads : Lower(f) \notin RoleNames /\ ~IsPlaceholder(Lower(f))}

\* non-empty, only characters of [A-Za-z0-9_-], no two hyphens in a row, no
\* hyphen first or last
WellFormedId(x) ==
    /\ x # <<>>
    /\ \A i \in 1..Len(x) : x[i] \in AllowedChars
    /\ \A i \in 1..(Len(x) - 1) : ~(x[i] = "-" /\ x[i + 1] = "-")
    /\ x[1] # "-"
    /\ x[Len(x)] # "-"

\* the raw identifier of the record sanitizes to the empty string
RawSanitizesToEmpty ==
    \/ ids.kind = "product" /\ ids.has_id /\ Sanitize(ids.raw) = <<>>
    \/ ids.kind = "json_product" /\ Sanitize(LastSegment(ids.raw)) = <<>>

\* C14: the id of every record written to products.ndjson, categories.ndjson
\* or documents.ndjson is non-empty, has only characters of [A-Za-z0-9_-], no
\* two hyphens in a row and no hyphen first or last; when the raw identifier
\* sanitizes to the empty string the id is the positional one.
C14_RecordIds ==
    (ids.kind # None) =>
        /\ WellFormedId(ids.id)
        /\ RawSanitizesToEmpty => (ids.id = ProductPrefix \o IndexText(ids.idx))

C14_Witness ==
    /\ ids.kind = "product"
    /\ ids.has_id
    /\ ids.raw = <<" ", "/", "-">>
    /\ ids.idx = 1
    /\ ids.id = <<"p", "r", "o", "d", "u", "c", "t", "-", "1">>

\* C15: sanitizing an identifier that is already well formed returns it
\* unchanged, sanitizing twice gives what sanitizing once gives, and the id
\* written to a record is unchanged by sanitizing it again.
C15_SanitizeIdempotent ==
    /\ WellFormedId(ids.raw) => (Sanitize(ids.raw) = ids.raw)
    /\ Sanitize(Sanitize(ids.raw)) = Sanitize(ids.raw)
    /\ (ids.kind # None) => (Sanitize(ids.id) = ids.id)

C15_Witness ==
    /\ ids.kind = "product"
    /\ ids.has_id
    /\ ids.raw = <<"Z", "-", "7">>
    /\ WellFormedId(ids.raw)
    /\ ids.id = ids.raw

\* C16: whenever the search index service fails to create the merchant's
\* datastore, for whatever reason, setup_vertex is failed, and once
\* setup_vertex is failed generate_config and finalize are not executed.
C16_DatastoreFailureFatal ==
    HasJob =>
        /\ (loc.datastore_result.documents_datastore = "pending_creation")
                => StepStatusOf("setup_vertex") = "failed"
        /\ (StepStatusOf("setup_vertex") = "failed")
                => /\ StepStatusOf("generate_config") = "pending"
                   /\ StepStatusOf("finalize") # "completed"
                   /\ config = NoConfig

\* the step messages that report no import error
ReportPrefixes ==
    {"Vertex AI Search datastore configured" \o crawl \o done :
        crawl \in {"", " with website crawling"}, done \in {"", ". Successfully imported"}}

\* C17: when corpus imports fail after the datastores were ensured,
\* setup_vertex is completed without an error, the run goes on to
\* generate_config, and the step message ends with the permission text when
\* some import error is a permission error and with the generic text otherwise.
C17_ImportFailuresNonFatal ==
    (loc.import_errors # {}) =>
        /\ StepStatusOf("setup_vertex") = "completed"
        /\ jobs[MerchantId].steps["setup_vertex"].error = None
        /\ pc \in {"generate_config", "config_run", "finalize", "handler", "done"}
        /\ (pc # "generate_config") => StepStatusOf("generate_config") # "pending"
        /\ jobs[MerchantId].steps["setup_vertex"].message \in
                {prefix \o (IF "403 Permission denied" \in loc.import_errors
                            THEN ". Import failed due to missing permissions"
                            ELSE ". Import errors") : prefix \in ReportPrefixes}

C17_Witness ==
    /\ pc = "done"
    /\ loc.import_errors = {"403 Permission denied"}
    /\ imported = {}
    /\ "products" \in artifacts
    /\ StepStatusOf("setup_vertex") = "completed"
    /\ StepStatusOf("generate_config") = "completed"
    /\ StepStatusOf("finalize") = "completed"

\* a finished run for a merchant with no uploaded file and no shop url, in
\* which no call raised and the documents datastore was not refused
NoFilesRun ==
    /\ pc = "done"
    /\ uploads \subseteq {".keep"}
    /\ req.shop_url = ""
    /\ exc = None
    /\ \A s \in TrackerSteps : StepStatusOf(s) # "failed"
    /\ loc.datastore_result.documents_datastore # "pending_creation"

\* C18: without uploaded files a run skips process_products,
\* process_categories and convert_documents, still has the documents
\* datastore (and only that one) ensured, imports nothing, and ends with
\* overall status completed.
C18_NoFilesScenario ==
    NoFilesRun =>
        /\ \A s \in {"process_products", "process_categories", "convert_documents"} :
                StepStatusOf(s) = "skipped"
        /\ StepStatusOf("setup_vertex") = "completed"
        /\ loc.datastore_result.website_datastore = None
        /\ loc.datastore_result.documents_datastore \in {"created", "exists"}
        /\ datastores = {"docs"}
        /\ artifacts = {}
        /\ imported = {}
        /\ loc.import_errors = {}
        /\ jobs[MerchantId].status = "completed"
        /\ jobs[MerchantId].progress = 100

C18_Witness ==
    /\ NoFilesRun
    /\ uploads = {".keep"}
    /\ datastores = {"docs"}
    /\ jobs[MerchantId].status = "completed"

\* C20: a run that is over has overall status completed or failed.
C20_RunEndsCompletedOrFailed ==
    (pc = "done") => jobs[MerchantId].status \in {"completed", "failed"}

\* the product rows that have a value for every required field
CompleteRows == {i \in 1..Len(kb.rows) : RequiredFields \subseteq kb.rows[i]}

\* C19: at the end of a run in which the products file and the documents
\* were converted and there is no categories file, product_count is the
\* number of rows that have all required fields, document_count is the
\* number of document files converted, process_categories is skipped, the
\* overall status is completed and the progress is 100.
C19_SuccessfulRunCounters ==
    (/\ pc = "done"
     /\ StepStatusOf("process_products") = "completed"
     /\ StepStatusOf("convert_documents") = "completed"
     /\ loc.categories_file_path = None)
        => /\ merchants[MerchantId].counts["product_count"] = Cardinality(CompleteRows)
           /\ merchants[MerchantId].counts["document_count"] = Cardinality(loc.document_paths)
           /\ StepStatusOf("process_categories") = "skipped"
           /\ jobs[MerchantId].status = "completed"
           /\ jobs[MerchantId].progress = 100


\* C21: once the overall status of a run is completed or failed, no step
\* update and no status poll changes any field of the run's tracker entry
\* (a new request, which starts another run, aside).
C21_RunImmutable ==
    [][(/\ HasJob
        /\ jobs[MerchantId].status \in {"completed", "failed"}
        /\ tasks'.accepted = tasks.accepted)
            => jobs' = jobs]_vars

\* C22: when start_onboarding is invoked for the merchant while the task of an
\* earlier request has not returned, every step update a task applies lands
\* in the tracker entry created by that task's own request.
C22_ExclusiveOwnership ==
    [][(/\ jobs' # jobs
        /\ tasks' = tasks
        /\ pc' # pc)
            => tasks.running = tasks.accepted]_vars

\* the step name a stage of process_onboarding reports to the tracker, by the
\* position of the task inside the stage
StageStep(position) ==
    CASE position = "create_merchant_record" -> "create_merchant_record"
      [] position = "create_folders_run" -> "create_folders"
      [] position = "products_run" -> "process_products"
      [] position = "categories_run" -> "process_categories"
      [] position = "documents_run" -> "convert_documents"
      [] position = "vertex_run" -> "setup_vertex"
      [] position = "config_run" -> "generate_config"
      [] OTHER -> None

\* C23: whenever a stage raises an exception that ends the run (the registry
\* upsert of create_merchant_record included), the tracker step of that same
\* stage is failed and carries the error text when the stage is left.
C23_ExceptionContainment ==
    [][(exc = None /\ exc' # None) =>
            /\ StageStep(pc) \in DOMAIN jobs'[MerchantId].steps
            /\ jobs'[MerchantId].steps[StageStep(pc)].status = "failed"
            /\ jobs'[MerchantId].steps[StageStep(pc)].error # None]_vars

\* the Ledger's folders flag is true for the merchant
FoldersFlagSet == HasRow /\ merchants[MerchantId].flags["folders"]

\* what the step leaves behind when it short-circuits: no folder created, no
\* ledger call, the row as it was, the step completed with the explanatory
\* message, the run at the next stage
ShortCircuited ==
    /\ uploads' = uploads
    /\ ledgerCalls' = {}
    /\ merchants' = merchants
    /\ jobs'[MerchantId].steps["create_folders"].status = "completed"
    /\ jobs'[MerchantId].steps["create_folders"].message
            = "Folder structure already exists (created in Step 1)"
    /\ pc' = "process_products"

C25_DocumentPartialSuccess ==
    [][\A converted \in SUBSET DocFileNames :
        DocumentsRun("ok", converted, DocumentCount(kb.chunks, converted), TRUE)
            => /\ pc' = "setup_vertex"
               /\ exc' = None
               /\ jobs'[MerchantId].steps["convert_documents"].status
                    = (IF converted # {} THEN "completed" ELSE "skipped")
               /\ jobs'[MerchantId].steps["convert_documents"].error = None
               /\ loc'.skipped_files = loc.document_paths \ converted
               /\ (converted # {}) =>
                    /\ "documents" \in artifacts'
                    /\ merchants'[MerchantId].flags["documents"]
                    /\ merchants'[MerchantId].counts["document_count"]
                            = DocumentCount(kb.chunks, converted)]_vars

\* one of two documents failed to convert, the other was converted, and the
\* run completed
C25_Witness ==
    /\ pc = "done"
    /\ HasJob
    /\ Cardinality(loc.document_paths) = 2
    /\ Cardinality(loc.skipped_files) = 1
    /\ StepStatusOf("convert_documents") = "completed"
    /\ jobs[MerchantId].status = "completed"

\* C26: when the listing of knowledge_base fails while process_products,
\* process_categories or convert_documents looks for its input, that step is
\* marked failed.
C26_ListingFailureFailsStep ==
    [][/\ ProductsScan(FALSE)
            => jobs'[MerchantId].steps["process_products"].status = "failed"
       /\ CategoriesScan(FALSE)
            => jobs'[MerchantId].steps["process_categories"].status = "failed"
       /\ DocumentsScan(FALSE)
            => jobs'[MerchantId].steps["convert_documents"].status = "failed"]_vars

\* website_datastore_id / docs_datastore_id of create_datastore
DatastoreId(ds) == MerchantId \o "-" \o ds \o "-engine"

\* ids of the datastores create_datastore reported as created or existing in
\* the run
EnsuredDatastoreIds ==
    {DatastoreId(ds) : ds \in
        {d \in {"website", "docs"} :
            loc.datastore_result[IF d = "website" THEN "website_datastore"
                                 ELSE "documents_datastore"] \in {"created", "exists"}}}

\* C27: once setup_search_index has completed in a run, the datastore id in the
\* Ledger and the one in the emitted config are the id of a datastore ensured
\* in that run, and the Ledger's datastore status is active exactly when a
\* datastore was created or already existed.
C27_SearchIndexReference ==
    (/\ HasJob
     /\ HasRow
     /\ pc \in {"generate_config", "config_run", "finalize", "done"}
     /\ StepStatusOf("setup_vertex") = "completed")
        => /\ merchants[MerchantId].vertex_datastore_id \in EnsuredDatastoreIds
           /\ (config.written /\ pc \in {"finalize", "done"})
                => config.datastore_id \in EnsuredDatastoreIds
           /\ (merchants[MerchantId].vertex_datastore_status = "active")
                <=> (EnsuredDatastoreIds # {})

\* C28: an upsert for an existing merchant id leaves the row's owning user id
\* as it was, so a read filtered by the owner still finds the row and a read
\* filtered by any other user finds none.
C28_OwnershipPreserved ==
    [][(HasRow /\ merchants' # merchants /\ MerchantId \in DOMAIN merchants')
        => LET owner == merchants[MerchantId].user_id
           IN  /\ merchants'[MerchantId].user_id = owner
               /\ get_merchant(merchants', MerchantId, owner) # {}
               /\ \A other \in UserIds \ {owner} :
                    get_merchant(merchants', MerchantId, other) = {}]_vars

\* C29: when process_onboarding returns, the Ledger's onboarding flag is true
\* (onboarding_status completed) if and only if the tracker's overall status
\* of the run is completed.
C29_LedgerTrackerAgreement ==
    [][(pc # "done" /\ pc' = "done" /\ MerchantId \in DOMAIN merchants')
        => /\ merchants'[MerchantId].flags["onboarding"]
                <=> (jobs'[MerchantId].status = "completed")
           /\ (merchants'[MerchantId].onboarding_status = "completed")
                <=> (jobs'[MerchantId].status = "completed")]_vars

\* the transform step that writes the corpus artifact of a role
RoleStep(role) ==
    CASE role = "products" -> "process_products"
      [] role = "categories" -> "process_categories"
      [] role = "documents" -> "convert_documents"

\* C30: in any run, setup_search_index imports the artifact of a role only if
\* the transform step of that role completed in the same run.
C30_NoStaleImports ==
    (HasJob /\ pc \in {"generate_config", "config_run", "finalize"})
        => \A role \in imported : StepStatusOf(RoleStep(role)) = "completed"

====
